---------------------------- MODULE Spec2Model ----------------------------
(***************************************************************************)
(* Model of the main loop of                                               *)
(*   src/src/Estimation/tests/test_gtsam_advanced_estimator.py             *)
(* (the gtsam_pivot_estimator node): wall classification, corner-contact   *)
(* hysteresis, vision staleness, the contact-mode cascade and the          *)
(* publication of the estimate.                                            *)
(*                                                                         *)
(* Units: forces are in tenths of a force unit (3.0 is 30), times are in   *)
(* tenths of a second (0.2 s is 2, 1.0 s is 10).  Python's None is the     *)
(* empty sequence and a present value x is the one-element sequence <<x>>. *)
(* A Python name that was never assigned is Unbound.                       *)
(***************************************************************************)
EXTENDS Integers, Sequences, FiniteSets, TLC

None == <<>>
Some(x) == <<x>>
Unbound == <<>>

(***************************************************************************)
(* Program constants.                                                      *)
(***************************************************************************)
\* wall_contact_force_margin = 3.0
WallContactForceMargin == 30
\* measured_wrench_ee[0] > 3.0
ContactForceThreshold == 30
\* num_line_contact_detected_count > 15
PatienceThreshold == 15
\* time_since_last_vision_message < .2
FreshThreshold == 2
\* time_since_last_vision_message > 1.0
StaleThreshold == 10
\* t_vision_recent = time.time() - 1.0
InitialVisionAge == 10
\* time_since_last_vision_message = 100
InitialTimeSince == 1000
\* num_line_contact_detected_count = np.inf
Inf == 9999
\* wall_flag = -1 / 0 / 1 / 2
WallFlagNone == -1
WallFlagRight == 0
WallFlagLeft == 1
WallFlagBoth == 2

(***************************************************************************)
(* Bounds of the model.                                                    *)
(***************************************************************************)
\* number of vertices of the object polygon (len(object_vertex_array[0]))
NumVertices == 3
\* number of cycles a run of the general specifications follows
MaxCycles == 3
\* number of cycles a run of the hysteresis specification follows
MaxCyclesHysteresis == 19
\* largest clock reading (time since the last accepted vision message) the
\* model follows (all values above StaleThreshold behave alike)
MaxElapsed == 11

VARIABLES
    pc,                               \* "running" | "done" | "crashed"
    rm,                               \* transport data after rm.unpack_all()
    replies,                          \* what the reasoner and the estimator answered this cycle
    wall_flag,
    wall_contact_on,
    corner_contact_is_feasible,
    num_line_contact_detected_count,
    corner_contact_dict,
    prev_step_was_line_contact,
    vision_clock,                     \* time.time() - t_vision_recent at the last reading
    time_since_last_vision_message,
    vision_vertex_array,
    vision_hypothesis_dict,
    can_run_estimate,
    mode,                             \* the branch of the cascade taken this cycle
    hand_contact_indices,
    est_calls,                        \* estimator methods called this cycle (before the first: in the set-up), in order
    cm_calls,                         \* reasoner methods called this cycle (before the first: in the set-up), in order
    has_run_once,                     \* estimator fields
    current_contact_face,
    s_current,
    est_wall_contact,
    cm_previous_estimate,             \* reasoner field
    pub_pivot,                        \* messages published this cycle
    pub_contact,
    last_pivot,                       \* latest message on each topic
    last_contact,
    shutdown,                         \* the transport layer reports shutdown / end of the recorded data
    cycle,                            \* history: number of cycles run so far
    since_feasible                    \* history: consecutive infeasible reports since the last feasible one (-1: none yet)

vars == << pc, rm, replies, wall_flag, wall_contact_on, corner_contact_is_feasible,
           num_line_contact_detected_count, corner_contact_dict,
           prev_step_was_line_contact, vision_clock, time_since_last_vision_message,
           vision_vertex_array, vision_hypothesis_dict, can_run_estimate, mode,
           hand_contact_indices, est_calls, cm_calls, has_run_once,
           current_contact_face, s_current, est_wall_contact, cm_previous_estimate,
           pub_pivot, pub_contact, last_pivot, last_contact, shutdown, cycle, since_feasible >>


(***************************************************************************)
(* WallContactClassifier (lines 159-176).                                  *)
(***************************************************************************)
RECURSIVE DotFrom(_, _, _)
DotFrom(a, w, i) == IF i > Len(a) THEN 0 ELSE a[i] * w[i] + DotFrom(a, w, i + 1)

\* np.dot of one row of the inequality matrix with the wrench
Dot(a, w) == DotFrom(a, w, 1)

\* any(np.dot(A, wrench) > b + wall_contact_force_margin)
AnyRowViolated(A, b, w) ==
    \E i \in 1..Len(A) : Dot(A[i], w) > b[i] + WallContactForceMargin

\* the side test with an absent inequality counted as no contact
WallSideFailsClosed(A, b, w) ==
    IF Len(A) > 0 THEN AnyRowViolated(A, b, w) ELSE FALSE

\* wall_contact_right_bool / wall_contact_left_bool
WallSideBool(A, b, w) ==
    IF Len(A) > 0 THEN AnyRowViolated(A, b, w) ELSE TRUE

\* the if/elif chain that sets wall_flag, with the two flags exchanged
WallFlagExchanged(right, left) ==
    IF right /\ ~left THEN WallFlagLeft
    ELSE IF ~right /\ left THEN WallFlagLeft
    ELSE IF right /\ left THEN WallFlagBoth
    ELSE WallFlagNone

\* the if/elif chain that sets wall_flag (initialised to -1)
WallFlagOf(right, left) ==
    IF right /\ ~left THEN WallFlagRight
    ELSE IF ~right /\ left THEN WallFlagLeft
    ELSE IF right /\ left THEN WallFlagBoth
    ELSE WallFlagNone

\* wall_contact_on = wall_contact_right_bool or wall_contact_left_bool
WallContactOn(right, left) == right \/ left

(***************************************************************************)
(* HysteresisTracker (lines 199-211).  The result is the triple            *)
(* (corner_contact_is_feasible, num_line_contact_detected_count,           *)
(* corner_contact_dict).                                                   *)
(***************************************************************************)
\* np.inf + 1 is np.inf
CountPlusOne(c) == IF c = Inf THEN Inf ELSE c + 1

\* the flip test with >= in place of >
PatienceExceededEarly(c) == c >= PatienceThreshold

\* num_line_contact_detected_count > 15
PatienceExceeded(c) == c > PatienceThreshold

\* the hysteresis update without the latch of line 205
HysteresisUpdateWithoutLatch(feasible, count, dict, ran_once, report) ==
    IF ~ran_once THEN << feasible, count, dict >>
    ELSE IF report.is_feasible THEN << TRUE, 0, dict >>
    ELSE << IF PatienceExceeded(CountPlusOne(count)) THEN FALSE ELSE feasible,
            CountPlusOne(count), dict >>

\* the hysteresis update without the has_run_once test of line 199
HysteresisUpdateUnguarded(feasible, count, dict, ran_once, report) ==
    IF report.is_feasible THEN << TRUE, 0, Some(report.contact_vertex) >>
    ELSE << IF PatienceExceeded(CountPlusOne(count)) THEN FALSE ELSE feasible,
            CountPlusOne(count), dict >>

\* lines 199-211: the update runs only once the estimator has run
HysteresisUpdate(feasible, count, dict, ran_once, report) ==
    IF ~ran_once THEN << feasible, count, dict >>
    ELSE IF report.is_feasible THEN << TRUE, 0, Some(report.contact_vertex) >>
    ELSE << IF PatienceExceeded(CountPlusOne(count)) THEN FALSE ELSE feasible,
            CountPlusOne(count), dict >>

(***************************************************************************)
(* StalenessGate (lines 216-224).                                          *)
(***************************************************************************)
\* rm.polygon_vision_estimate_has_new and rm.polygon_vision_estimate_dict is not None
NewVision(r) ==
    r.polygon_vision_estimate_has_new /\ r.polygon_vision_estimate_dict # None

\* time_since_last_vision_message < .2
VisionFresh(t) == t < FreshThreshold

\* the long-stale test with >= in place of >
VisionLongStaleInclusive(t) == t >= StaleThreshold

\* time_since_last_vision_message > 1.0
VisionLongStale(t) == t > StaleThreshold


(***************************************************************************)
(* ModeArbitrator (lines 228-347).  A context c collects what the cascade  *)
(* reads: c.r the transport data, c.q the collaborators' answers, and the  *)
(* loop's variables as they stand after the hysteresis and staleness       *)
(* updates.                                                                *)
(***************************************************************************)
CornerContactMode == "CornerContactMode"
FlushLineContactMode == "FlushLineContactMode"
VisionAssistMode == "VisionAssistMode"
NoContactMode == "NoContactMode"
Idle == "Idle"
Modes == { CornerContactMode, FlushLineContactMode, VisionAssistMode, NoContactMode, Idle }

BoolInt(b) == IF b THEN 1 ELSE 0

\* rm.torque_cone_boundary_test is not None and rm.torque_cone_boundary_test
TorqueBoundary(r) ==
    r.torque_cone_boundary_test # None /\ r.torque_cone_boundary_test[1]

\* the force test with >= in place of >
NormalForceHighInclusive(r) == r.measured_contact_wrench[1] >= ContactForceThreshold

\* measured_wrench_ee[0] > 3.0
NormalForceHigh(r) == r.measured_contact_wrench[1] > ContactForceThreshold

\* the arm of the if/elif chain that is entered, with the vision arm tested first
BranchVisionFirst(r, feasible, line_check, t) ==
    IF NewVision(r) THEN "vision"
    ELSE IF TorqueBoundary(r) /\ feasible /\ NormalForceHigh(r) THEN "corner"
    ELSE IF TorqueBoundary(r) /\ NormalForceHigh(r) THEN "flush"
    ELSE IF line_check /\ VisionLongStale(t) THEN "nocontact"
    ELSE "none"

\* the arm of the if/elif chain that is entered (lines 228, 258, 294, 326)
Branch(r, feasible, line_check, t) ==
    IF TorqueBoundary(r) /\ feasible /\ NormalForceHigh(r) THEN "corner"
    ELSE IF TorqueBoundary(r) /\ NormalForceHigh(r) THEN "flush"
    ELSE IF NewVision(r) THEN "vision"
    ELSE IF line_check /\ VisionLongStale(t) THEN "nocontact"
    ELSE "none"

\* the no-contact arm proceeding on any non-empty hypothesis set
ModeOfAnyHypothesis(br, q) ==
    CASE br = "corner" -> CornerContactMode
      [] br = "flush" -> FlushLineContactMode
      [] br = "vision" -> IF q.hypothesis_index # None THEN VisionAssistMode ELSE Idle
      [] br = "nocontact" -> IF q.num_hypothesis >= 1 THEN NoContactMode ELSE Idle
      [] OTHER -> Idle

\* the vision arm proceeding without a chosen hypothesis
ModeOfVisionWithoutHypothesis(br, q) ==
    CASE br = "corner" -> CornerContactMode
      [] br = "flush" -> FlushLineContactMode
      [] br = "vision" -> VisionAssistMode
      [] br = "nocontact" -> IF q.num_hypothesis = 1 THEN NoContactMode ELSE Idle
      [] OTHER -> Idle

\* the branch that fires: the vision arm proceeds only with a chosen hypothesis
\* (line 298), the no-contact arm only with exactly one hypothesis (line 330)
ModeOf(br, q) ==
    CASE br = "corner" -> CornerContactMode
      [] br = "flush" -> FlushLineContactMode
      [] br = "vision" -> IF q.hypothesis_index # None THEN VisionAssistMode ELSE Idle
      [] br = "nocontact" -> IF q.num_hypothesis = 1 THEN NoContactMode ELSE Idle
      [] OTHER -> Idle

\* the four observations pushed by the corner, flush and vision-assist branches
Observations(c) ==
    << << "add_hand_pose_measurement", << c.r.hand_pose >> >>,
       << "add_hand_wrench_measurement", c.r.measured_world_manipulation_wrench >>,
       << "add_sliding_state", << c.r.sliding_state >> >>,
       << "update_wall_contact_state", << BoolInt(c.wall_contact_on) >> >> >>

\* the no-contact branch pushing the wall update like the other branches
ObservationsWithWall(c) == Observations(c)

\* the three observations pushed by the no-contact branch (no wall update)
ObservationsNoWall(c) == SubSeq(Observations(c), 1, 3)

\* the corner branch adding the vision observation before the hypothesis test
VisionCallsCornerUnguarded(c) ==
    IF VisionFresh(c.t)
    THEN << << "add_vision_estimate", c.vision_vertex_array >> >>
         \o (IF c.q.hypothesis_index # None
             THEN << << "add_vision_constraints_no_hand_contact",
                        c.vision_hypothesis_dict \o c.q.hypothesis_index >> >>
             ELSE << >>)
    ELSE << >>

\* lines 247-253: vision fused in the corner branch
VisionCallsCorner(c) ==
    IF VisionFresh(c.t) /\ c.q.hypothesis_index # None
    THEN << << "add_vision_estimate", c.vision_vertex_array >>,
            << "add_vision_constraints_no_hand_contact",
               c.vision_hypothesis_dict \o c.q.hypothesis_index >> >>
    ELSE << >>

\* lines 284-289: vision fused in the flush branch
VisionCallsFlush(c) ==
    IF VisionFresh(c.t)
    THEN << << "add_vision_estimate", c.vision_vertex_array >> >>
         \o (IF c.q.hypothesis_index # None
             THEN << << "add_vision_constraints_hand_flush_contact",
                        c.vision_hypothesis_dict \o c.q.hypothesis_index >> >>
             ELSE << >>)
    ELSE << >>

\* the vision-assist kinematic constraint injected whatever has_run_once is
VisionAssistKinematicAlways(c) ==
    << << "add_kinematic_constraints_no_hand_contact_for_vision_assist", << >> >> >>

\* lines 319-320: the vision-assist kinematic constraint
VisionAssistKinematic(c) ==
    IF c.has_run_once
    THEN << << "add_kinematic_constraints_no_hand_contact_for_vision_assist", << >> >> >>
    ELSE << >>

\* the estimator methods a branch calls, in order (before compute_basic_estimate)
BranchEstCalls(m, c) ==
    CASE m = CornerContactMode ->
            << << "increment_time", << >> >> >> \o Observations(c)
            \o << << "add_kinematic_constraints_object_corner_hand_line_contact",
                     c.corner_contact_dict >> >>
            \o VisionCallsCorner(c)
      [] m = FlushLineContactMode ->
            << << "increment_time", << >> >> >> \o Observations(c)
            \o << << "add_kinematic_constraints_hand_flush_contact", << >> >> >>
            \o VisionCallsFlush(c)
      [] m = VisionAssistMode ->
            << << "increment_time", << >> >> >> \o Observations(c)
            \o VisionAssistKinematic(c)
            \o << << "add_vision_estimate", c.vision_vertex_array >>,
                  << "add_vision_constraints_no_hand_contact",
                     c.vision_hypothesis_dict \o c.q.hypothesis_index >> >>
      [] m = NoContactMode ->
            << << "increment_time", << >> >> >> \o ObservationsNoWall(c)
            \o << << "add_kinematic_constraints_no_hand_contact_for_no_vision_assist", << 0 >> >> >>
      [] OTHER -> << >>

\* compute_basic_estimate called in every cycle
EstimateCallsEveryCycle(m) == << << "compute_basic_estimate", << >> >> >>

\* lines 351-357: compute_basic_estimate is called when can_run_estimate is set
EstimateCalls(m) ==
    IF m # Idle THEN << << "compute_basic_estimate", << >> >> >> ELSE << >>

\* the reasoner methods called in a cycle, in order (lines 192-222, then the branch)
ReasonerCalls(br, m, c) ==
    << "update_pose_and_wrench", "update_torque_cone_boundary_flag", "COP_reasoning_hand_contact",
       "update_check_on_transition_from_hand_line_object_line_contact_to_no_contact" >>
    \o (IF c.has_run_once THEN << "compute_feasibility_of_hand_line_object_corner_contact" >> ELSE << >>)
    \o (IF NewVision(c.r) THEN << "update_vision", "compute_hypothesis_object_poses_from_vision" >> ELSE << >>)
    \o (CASE br = "corner" ->
              << "compute_hypothesis_object_poses_assuming_no_object_motion" >>
              \o (IF VisionFresh(c.t) THEN << "choose_vision_hypothesis" >> ELSE << >>)
          [] br = "flush" ->
              << "compute_hand_contact_face",
                 "compute_hypothesis_object_poses_assuming_hand_line_object_line_contact" >>
              \o (IF VisionFresh(c.t) THEN << "choose_vision_hypothesis" >> ELSE << >>)
          [] br = "vision" ->
              << "compute_hypothesis_object_poses_assuming_no_object_motion", "choose_vision_hypothesis" >>
          [] br = "nocontact" ->
              << "compute_hypothesis_object_poses_assuming_no_contact" >>
          [] OTHER -> << >>)
    \o (IF m # Idle THEN << "update_previous_estimate" >> ELSE << >>)

\* the flag left as it was by the vision-assist branch
PrevLineAfterVisionKeeps(m, prev) ==
    CASE m = FlushLineContactMode -> TRUE
      [] m \in { CornerContactMode, NoContactMode } -> FALSE
      [] OTHER -> prev

\* prev_step_was_line_contact after the branch (lines 230, 291, 300, 332)
PrevLineAfter(m, prev) ==
    CASE m = FlushLineContactMode -> TRUE
      [] m \in { CornerContactMode, VisionAssistMode, NoContactMode } -> FALSE
      [] OTHER -> prev

\* the contact face cleared at the start of every cycle
ContactFaceClearedEachCycle(m, face, q) ==
    CASE m = FlushLineContactMode -> Some(q.hand_contact_face)
      [] OTHER -> None

\* current_estimator.current_contact_face after the branch (lines 243, 266, 303, 335)
ContactFaceAfter(m, face, q) ==
    CASE m = FlushLineContactMode -> Some(q.hand_contact_face)
      [] m \in { CornerContactMode, VisionAssistMode, NoContactMode } -> None
      [] OTHER -> face

\* the slip parameter re-seeded in every flush cycle
SlipAlwaysReseeded(m, prev, s, q) ==
    IF m = FlushLineContactMode THEN q.hand_contact_s ELSE s

\* current_estimator.s_current after the branch (lines 268-269)
SlipAfter(m, prev, s, q) ==
    IF m = FlushLineContactMode /\ ~prev THEN q.hand_contact_s ELSE s

\* the flush indices without the wrap of the last face to vertex 0
HandContactIndicesNoWrap(m, dict, q) ==
    CASE m = CornerContactMode -> dict
      [] m = FlushLineContactMode -> << q.hand_contact_face, q.hand_contact_face + 1 >>
      [] OTHER -> << >>

\* hand_contact_indices, reset to [] every cycle (lines 153, 241, 281)
HandContactIndices(m, dict, q) ==
    CASE m = CornerContactMode -> dict
      [] m = FlushLineContactMode ->
            << q.hand_contact_face, (q.hand_contact_face + 1) % NumVertices >>
      [] OTHER -> << >>


(***************************************************************************)
(* EstimateSnapshotBuilder (lines 351-402).  Vertex indices are 0-based as *)
(* in the program; sequences are 1-based, so vertex i is element i + 1.    *)
(***************************************************************************)
\* the three rows of vertex_array_out, built by the loop of lines 380-392
\* with each vertex appended at the front instead of the back
VertexArrayOutReversed(est, z) ==
    LET pos == est.vertex_positions_wm_current
        n == Len(pos[1])
    IN  << [i \in 1..n |-> pos[1][n + 1 - i]],
           [i \in 1..n |-> pos[2][n + 1 - i]],
           [i \in 1..n |-> z] >>

\* the three rows of vertex_array_out, built by the loop of lines 380-392
VertexArrayOut(est, z) ==
    LET pos == est.vertex_positions_wm_current
        n == Len(pos[1])
    IN  << [i \in 1..n |-> pos[1][i]],
           [i \in 1..n |-> pos[2][i]],
           [i \in 1..n |-> z] >>

\* mgl_cos_theta_list and mgl_sin_theta_list, of the length of the vertex list
WeightLists(est) ==
    LET n == Len(est.vertex_positions_wm_current[1])
    IN  << [i \in 1..n |-> est.mglcostheta_current[i]],
           [i \in 1..n |-> est.mglsintheta_current[i]] >>

RECURSIVE ContactIndicesFrom(_, _, _)
ContactIndicesFrom(i, n, cv) ==
    IF i >= n THEN << >>
    ELSE (IF cv # None /\ (\E k \in 1..Len(cv[1]) : cv[1][k] = i) THEN << i >> ELSE << >>)
         \o ContactIndicesFrom(i + 1, n, cv)

\* contact_indices: the vertices i with i in current_estimator.contact_vertices
ContactIndices(est, cv) == ContactIndicesFrom(0, Len(est.vertex_positions_wm_current[1]), cv)

\* np.argmin: the first index of a smallest element
ArgMin(row) ==
    (CHOOSE i \in 1..Len(row) :
        /\ \A j \in 1..Len(row) : row[i] <= row[j]
        /\ \A j \in 1..(i - 1) : row[j] > row[i]) - 1

\* np.argmax: the first index of a largest element
ArgMax(row) ==
    (CHOOSE i \in 1..Len(row) :
        /\ \A j \in 1..Len(row) : row[i] >= row[j]
        /\ \A j \in 1..(i - 1) : row[j] < row[i]) - 1

\* wall_contact_indices (lines 394-397)
WallContactIndices(flag, out) ==
    IF flag = WallFlagRight THEN << ArgMin(out[2]) >>
    ELSE IF flag = WallFlagLeft THEN << ArgMax(out[2]) >>
    ELSE << >>

\* the message handed to rm.pub_pivot_frame_estimated (lines 364-368)
PivotMessage(est, cv, z) ==
    IF cv # None
    THEN Some(<< est.vertex_positions_wm_current[1][cv[1][1] + 1],
                 est.vertex_positions_wm_current[2][cv[1][1] + 1], z >>)
    ELSE None

\* the message handed to rm.pub_polygon_contact_estimate (lines 370-402)
ContactMessage(est, cv, z, hand_idx, flag) ==
    LET out == VertexArrayOut(est, z)
    IN  [ vertex_array |-> out,
          contact_indices |-> ContactIndices(est, cv),
          mgl_cos_theta_list |-> WeightLists(est)[1],
          mgl_sin_theta_list |-> WeightLists(est)[2],
          hand_contact_indices |-> hand_idx,
          wall_contact_indices |-> WallContactIndices(flag, out),
          wall_flag |-> flag ]

\* publication without the test of line 360
PublishedAlways(m, est) == m # Idle

\* whether the two messages are built and published (lines 351, 360)
Published(m, est) == m # Idle /\ est # None

\* the latest message of a topic, as its subscribers hold it
LatestMessage(published, last) == IF published # None THEN published ELSE last


(***************************************************************************)
(* One cycle of the while loop (lines 148-408).                            *)
(***************************************************************************)
\* the answer recorded for a question that was not asked this cycle
NoReport == [ is_feasible |-> FALSE, contact_vertex |-> -1 ]
NotAsked == -1

\* current_estimator.has_run_once after compute_basic_estimate
HasRunOnceAfter(ran_once, m, est) == ran_once \/ (m # Idle /\ est # None)

\* the estimator's wall-contact state after update_wall_contact_state
EstWallAfter(m, w, on) ==
    IF m \in { CornerContactMode, FlushLineContactMode, VisionAssistMode } THEN on ELSE w

\* the history of the feasibility reports: consecutive infeasible ones since
\* the last feasible one, -1 while none was feasible
SinceFeasibleAfter(n, ran_once, report) ==
    IF ~ran_once THEN n
    ELSE IF report.is_feasible THEN 0
    ELSE IF n >= 0 THEN n + 1 ELSE n

\* the elapsed time measured from the previous reading instead of from t_vision_recent
ElapsedSinceReading(new, clock, dt) == IF new THEN 0 ELSE dt

\* lines 216-224: the elapsed time since the last accepted vision message
Elapsed(new, clock, dt) == IF new THEN 0 ELSE clock + dt

\* the vision data latched by the first accepted message only
VisionLatchFirstOnly(r, latched) ==
    IF latched # Unbound THEN latched
    ELSE IF NewVision(r) THEN Some(r.polygon_vision_estimate_dict[1]) ELSE latched

\* lines 216-222: vision_vertex_array (and the hypothesis set the reasoner
\* derives from it) is replaced by every accepted vision message
VisionLatch(r, latched) ==
    IF NewVision(r) THEN Some(r.polygon_vision_estimate_dict[1]) ELSE latched

\* the reasoner's previous estimate replaced only by an estimate that is not None
PreviousEstimateAfterNullCheck(m, est, prev) ==
    IF m # Idle /\ est # None THEN est ELSE prev

\* lines 357-358: update_previous_estimate(current_estimate_dict), called
\* before the test of line 360
PreviousEstimateAfter(m, est, prev) ==
    IF m # Idle THEN est ELSE prev

CycleBody(r, q, t, h, br, m) ==
    LET right == WallSideBool(r.friction_parameter_dict.aer, r.friction_parameter_dict.ber,
                              r.measured_world_manipulation_wrench)
        left == WallSideBool(r.friction_parameter_dict.ael, r.friction_parameter_dict.bel,
                             r.measured_world_manipulation_wrench)
        flag == WallFlagOf(right, left)
        on == WallContactOn(right, left)
        new == NewVision(r)
        vva == VisionLatch(r, vision_vertex_array)
        vhd == VisionLatch(r, vision_hypothesis_dict)
        \* choose_vision_hypothesis reads vision_hypothesis_dict (lines 249, 285)
        crash == br \in { "corner", "flush" } /\ VisionFresh(t) /\ vhd = Unbound
        c == [ r |-> r, q |-> q, t |-> IF crash THEN StaleThreshold ELSE t,
               wall_contact_on |-> on, corner_contact_dict |-> h[3],
               vision_vertex_array |-> vva, vision_hypothesis_dict |-> vhd,
               has_run_once |-> has_run_once ]
        hand_idx == HandContactIndices(m, h[3], q)
        pub == ~crash /\ Published(m, q.estimate)
        \* line 362 subscripts the estimate
        crash_snapshot == pub /\ q.estimate = None
        built == pub /\ ~crash_snapshot
    IN  /\ rm' = r
        /\ replies' = q
        /\ wall_flag' = flag
        /\ wall_contact_on' = on
        /\ corner_contact_is_feasible' = h[1]
        /\ num_line_contact_detected_count' = h[2]
        /\ corner_contact_dict' = h[3]
        /\ since_feasible' = SinceFeasibleAfter(since_feasible, has_run_once, q.corner_report)
        /\ vision_clock' = t
        /\ time_since_last_vision_message' = t
        /\ vision_vertex_array' = vva
        /\ vision_hypothesis_dict' = vhd
        /\ mode' = m
        /\ can_run_estimate' = (m # Idle)
        /\ hand_contact_indices' = hand_idx
        /\ est_calls' = BranchEstCalls(m, c) \o EstimateCalls(IF crash THEN Idle ELSE m)
        /\ cm_calls' = ReasonerCalls(br, IF crash THEN Idle ELSE m, c)
        /\ prev_step_was_line_contact' =
              IF crash /\ m = FlushLineContactMode THEN prev_step_was_line_contact
              ELSE PrevLineAfter(m, prev_step_was_line_contact)
        /\ current_contact_face' = ContactFaceAfter(m, current_contact_face, q)
        /\ s_current' = SlipAfter(m, prev_step_was_line_contact, s_current, q)
        /\ est_wall_contact' = EstWallAfter(m, est_wall_contact, on)
        /\ has_run_once' = IF crash THEN has_run_once ELSE HasRunOnceAfter(has_run_once, m, q.estimate)
        /\ cm_previous_estimate' =
              PreviousEstimateAfter(IF crash THEN Idle ELSE m, q.estimate, cm_previous_estimate)
        /\ pub_pivot' = IF built THEN PivotMessage(q.estimate[1], q.contact_vertices, r.ee_pose_height)
                        ELSE None
        /\ pub_contact' = IF built
                          THEN Some(ContactMessage(q.estimate[1], q.contact_vertices,
                                                   r.ee_pose_height, hand_idx, flag))
                          ELSE None
        /\ last_pivot' = LatestMessage(pub_pivot', last_pivot)
        /\ last_contact' = LatestMessage(pub_contact', last_contact)
        /\ pc' = IF crash \/ crash_snapshot THEN "crashed" ELSE "running"

\* the while condition taken as true although the transport layer reports the end
LoopContinuesAlways(stop) == TRUE

\* line 148: (rm.load_mode and rm.read_still_running()) or
\* (not rm.load_mode and not rospy.is_shutdown())
LoopContinues(stop) == ~stop

\* a cycle whose inputs and collaborator answers are drawn from the sets of P;
\* the condition of the loop is read at its top only, and the end may be
\* reported while the cycle runs
Cycle(P) ==
    /\ pc = "running"
    /\ LoopContinues(shutdown)
    /\ shutdown' \in P.stops
    /\ cycle < P.max_cycles
    /\ cycle' = cycle + 1
    /\ \E r \in P.rm, dt \in P.dt, line_check \in P.line_checks,
          report \in P.reports :
         LET new == NewVision(r)
             h == HysteresisUpdate(corner_contact_is_feasible, num_line_contact_detected_count,
                                   corner_contact_dict, has_run_once, report)
             t == Elapsed(new, vision_clock, dt)
             br == Branch(r, h[1], line_check, t)
             asks_index == br = "vision" \/ (br \in { "corner", "flush" } /\ VisionFresh(t))
         IN  /\ t <= MaxElapsed
             /\ \E face \in (IF br = "flush" THEN P.faces ELSE { NotAsked }),
                   slip \in (IF br = "flush" THEN P.slips ELSE { NotAsked }),
                   idx \in (IF asks_index THEN P.indices ELSE { None }),
                   num \in (IF br = "nocontact" THEN P.nums ELSE { NotAsked }) :
                  LET q0 == [ hypothesis_index |-> idx, num_hypothesis |-> num ]
                      m == ModeOf(br, q0)
                  IN  \E est \in (IF m # Idle THEN P.estimates ELSE { None }) :
                        \E cv \in (IF est # None THEN P.contact_vertices ELSE { None }) :
                           CycleBody(r,
                                     [ line_line_to_no_contact_check |-> line_check,
                                       corner_report |-> IF has_run_once THEN report ELSE NoReport,
                                       hand_contact_face |-> face,
                                       hand_contact_s |-> slip,
                                       hypothesis_index |-> idx,
                                       num_hypothesis |-> num,
                                       estimate |-> est,
                                       contact_vertices |-> cv ],
                                     t, h, br, m)

\* the while condition is false: shutdown, or the end of the recorded data (line 148)
LoopExit ==
    /\ pc = "running"
    /\ shutdown' = TRUE
    /\ ~LoopContinues(shutdown')
    /\ pc' = "done"
    /\ UNCHANGED << rm, replies, wall_flag, wall_contact_on, corner_contact_is_feasible,
                    num_line_contact_detected_count, corner_contact_dict,
                    prev_step_was_line_contact, vision_clock, time_since_last_vision_message,
                    vision_vertex_array, vision_hypothesis_dict, can_run_estimate, mode,
                    hand_contact_indices, est_calls, cm_calls, has_run_once,
                    current_contact_face, s_current, est_wall_contact, cm_previous_estimate,
                    pub_pivot, pub_contact, last_pivot, last_contact, cycle, since_feasible >>


(***************************************************************************)
(* The state when the loop is entered (lines 104-146).                     *)
(***************************************************************************)
\* an estimate dictionary of the estimator: vertex i at (n0 + i, t0 - i) for
\* even i and (n0 + i, t0 + i) for odd i, with its two weight terms
Estimate(n0, t0) ==
    [ vertex_positions_wm_current |->
          << [i \in 1..NumVertices |-> n0 + i],
             [i \in 1..NumVertices |-> IF i % 2 = 0 THEN t0 - i ELSE t0 + i] >>,
      mglcostheta_current |-> [i \in 1..NumVertices |-> 20 + i],
      mglsintheta_current |-> [i \in 1..NumVertices |-> 40 + i] ]

\* the friction dictionary before the friction-cone service has produced a boundary
NoFriction == [ aer |-> << >>, ber |-> << >>, ael |-> << >>, bel |-> << >> ]

\* rm after wait_for_necessary_data() and unpack_all() (lines 122-123)
InitialRm ==
    [ friction_parameter_dict |-> NoFriction,
      measured_world_manipulation_wrench |-> << 0, 0 >>,
      measured_contact_wrench |-> << 0 >>,
      torque_cone_boundary_test |-> None,
      sliding_state |-> 0,
      hand_pose |-> 0,
      ee_pose_height |-> 0,
      polygon_vision_estimate_has_new |-> FALSE,
      polygon_vision_estimate_dict |-> None ]

NoReplies ==
    [ line_line_to_no_contact_check |-> FALSE,
      corner_report |-> NoReport,
      hand_contact_face |-> NotAsked,
      hand_contact_s |-> NotAsked,
      hypothesis_index |-> None,
      num_hypothesis |-> NotAsked,
      estimate |-> None,
      contact_vertices |-> None ]

\* the estimator methods called before the loop: the constructor (line 130)
\* and generate_estimate_dict (line 132)
SetUpEstCalls ==
    << << "__init__", << >> >>, << "generate_estimate_dict", << >> >> >>

\* the reasoner methods called before the loop: the constructor (line 106)
\* and update_previous_estimate (line 133)
SetUpReasonerCalls == << "__init__", "update_previous_estimate" >>

Init ==
    /\ pc = "running"
    /\ rm = InitialRm
    /\ replies = NoReplies
    /\ wall_flag = WallFlagNone
    /\ wall_contact_on = FALSE
    /\ corner_contact_is_feasible = FALSE
    /\ num_line_contact_detected_count = Inf
    /\ corner_contact_dict = None
    /\ prev_step_was_line_contact = TRUE
    /\ vision_clock = InitialVisionAge
    /\ time_since_last_vision_message = InitialTimeSince
    /\ vision_vertex_array = Unbound
    /\ vision_hypothesis_dict = Unbound
    /\ can_run_estimate = FALSE
    /\ mode = "Startup"
    /\ hand_contact_indices = << >>
    /\ est_calls = SetUpEstCalls
    /\ cm_calls = SetUpReasonerCalls
    /\ has_run_once = FALSE
    /\ current_contact_face = None
    /\ s_current = 0
    /\ est_wall_contact = FALSE
    /\ cm_previous_estimate = Some(Estimate(0, 0))
    /\ pub_pivot = None
    /\ pub_contact = None
    /\ last_pivot = None
    /\ last_contact = None
    /\ shutdown = FALSE
    /\ cycle = 0
    /\ since_feasible = -1

(***************************************************************************)
(* The inputs of the specifications.                                       *)
(***************************************************************************)
\* transport data: the fields of InitialRm with the listed ones replaced
RmWith(torque, force, has_new, dict) ==
    [ InitialRm EXCEPT !.torque_cone_boundary_test = torque,
                       !.measured_contact_wrench = << force >>,
                       !.polygon_vision_estimate_has_new = has_new,
                       !.polygon_vision_estimate_dict = dict ]

Torques == { None, Some(FALSE), Some(TRUE) }
Forces == { ContactForceThreshold - 1, ContactForceThreshold, ContactForceThreshold + 1 }
Feasible(v) == [ is_feasible |-> TRUE, contact_vertex |-> v ]

VisionNone == << FALSE, None >>
VisionStale == << FALSE, Some(1) >>
VisionEmpty == << TRUE, None >>
VisionNew == << TRUE, Some(1) >>

\* the inputs every specification starts from: firm contact, no vision, one
\* answer to each question
BaseInputs ==
    [ rm |-> { RmWith(Some(TRUE), ContactForceThreshold + 1, FALSE, None) },
      dt |-> { 0, 1 },
      line_checks |-> { FALSE },
      reports |-> { NoReport },
      faces |-> { NumVertices - 1 },
      slips |-> { 1 },
      indices |-> { Some(0) },
      nums |-> { 1 },
      estimates |-> { Some(Estimate(0, 0)) },
      contact_vertices |-> { Some(<< 1 >>) },
      stops |-> { FALSE },
      max_cycles |-> MaxCycles ]

\* the cascade: every guard varies, and so do the answers that let a branch proceed
CascadeInputs ==
    [ BaseInputs EXCEPT
        !.rm = { RmWith(tq, f, v[1], v[2]) :
                    tq \in Torques, f \in Forces,
                    v \in { VisionNone, VisionStale, VisionEmpty, VisionNew } },
        !.line_checks = BOOLEAN,
        !.reports = { NoReport, Feasible(0) },
        !.indices = { None, Some(0) },
        !.nums = { 0, 1, 2 } ]

\* hysteresis: firm contact in every cycle, the feasibility report varies
HysteresisInputs ==
    [ BaseInputs EXCEPT
        !.dt = { 0 },
        !.reports = { NoReport, Feasible(0), Feasible(NumVertices - 1) },
        !.max_cycles = MaxCyclesHysteresis ]

\* staleness: firm contact in every cycle, the clock and the vision input vary
StalenessInputs ==
    [ BaseInputs EXCEPT
        !.rm = { RmWith(Some(TRUE), ContactForceThreshold + 1, v[1], v[2]) :
                    v \in { VisionStale, VisionNew } },
        !.dt = { 0, 1, 2 },
        !.reports = { NoReport, Feasible(0) },
        !.indices = { None, Some(0) } ]

\* the friction inequalities of one side: none, one row, two rows
RightSides ==
    { << << >>, << >> >>,
      << << << 1, 0 >> >>, << 0 >> >>,
      << << << 1, 0 >>, << 0, 1 >> >>, << 0, 10 >> >> }
LeftSides ==
    { << << >>, << >> >>,
      << << << -1, 0 >> >>, << 0 >> >>,
      << << << -1, 0 >>, << 0, 1 >> >>, << 0, 10 >> >> }
Wrenches ==
    { << 0, 0 >>,
      << WallContactForceMargin, 0 >>, << WallContactForceMargin + 1, 0 >>,
      << -WallContactForceMargin - 1, 0 >>,
      << 0, WallContactForceMargin + 10 >>, << 0, WallContactForceMargin + 11 >> }

RmWall(right, left, w) ==
    [ InitialRm EXCEPT !.torque_cone_boundary_test = Some(TRUE),
                       !.measured_contact_wrench = << ContactForceThreshold + 1 >>,
                       !.friction_parameter_dict =
                            [ aer |-> right[1], ber |-> right[2], ael |-> left[1], bel |-> left[2] ],
                       !.measured_world_manipulation_wrench = w ]

\* wall classification: firm contact in every cycle, the friction
\* inequalities and the wrench vary
WallInputs ==
    [ BaseInputs EXCEPT
        !.rm = { RmWall(right, left, w) : right \in RightSides, left \in LeftSides, w \in Wrenches } ]

RmSnapshot(z) ==
    [ InitialRm EXCEPT !.torque_cone_boundary_test = Some(TRUE),
                       !.measured_contact_wrench = << ContactForceThreshold + 1 >>,
                       !.ee_pose_height = z ]

\* snapshot: firm contact in every cycle, the estimator's output varies
SnapshotInputs ==
    [ BaseInputs EXCEPT
        !.rm = { RmSnapshot(z) : z \in { 0, 4 } },
        !.reports = { NoReport, Feasible(0) },
        !.faces = { 0, NumVertices - 1 },
        !.estimates = { None } \cup { Some(Estimate(n0, t0)) : n0 \in { 0, 5 }, t0 \in { 0, 3 } },
        !.contact_vertices = { None, Some(<< 1 >>), Some(<< 0, NumVertices - 1 >>) } ]

\* mode sequences: contact and vision come and go, and every answer that
\* decides what a branch does varies
SequenceInputs ==
    [ BaseInputs EXCEPT
        !.rm = { RmWith(tq, ContactForceThreshold + 1, v[1], v[2]) :
                    tq \in { Some(FALSE), Some(TRUE) }, v \in { VisionNone, VisionNew } },
        !.line_checks = BOOLEAN,
        !.reports = { NoReport, Feasible(1) },
        !.faces = { 0, NumVertices - 1 },
        !.slips = { 1, 2 },
        !.indices = { None, Some(0) },
        !.nums = { 1, 2 },
        !.estimates = { None, Some(Estimate(5, 3)) } ]

\* transport data with one friction inequality on each side
RmWallMode(torque, vision, w) ==
    [ RmWith(torque, ContactForceThreshold + 1, vision[1], vision[2]) EXCEPT
        !.friction_parameter_dict =
            [ aer |-> << << 1, 0 >> >>, ber |-> << 0 >>, ael |-> << << -1, 0 >> >>, bel |-> << 0 >> ],
        !.measured_world_manipulation_wrench = w ]

\* wall contact across the modes: contact, vision and the wall come and go
WallModeInputs ==
    [ BaseInputs EXCEPT
        !.rm = { RmWallMode(tq, v, w) :
                    tq \in { Some(FALSE), Some(TRUE) }, v \in { VisionNone, VisionNew },
                    w \in { << 0, 0 >>, << WallContactForceMargin + 1, 0 >> } },
        !.line_checks = BOOLEAN,
        !.reports = { NoReport, Feasible(1) },
        !.nums = { 1, 2 } ]

\* shutdown: contact and vision come and go, and the end may be reported in
\* any cycle
ShutdownInputs ==
    [ BaseInputs EXCEPT
        !.rm = { RmWith(tq, ContactForceThreshold + 1, v[1], v[2]) :
                    tq \in { Some(FALSE), Some(TRUE) }, v \in { VisionNone, VisionNew } },
        !.indices = { None, Some(0) },
        !.estimates = { None, Some(Estimate(0, 0)) },
        !.stops = BOOLEAN ]

\* latched data: contact in every cycle, two vision polygons and two corner
\* hypotheses to latch
LatchInputs ==
    [ BaseInputs EXCEPT
        !.rm = { RmWith(Some(TRUE), ContactForceThreshold + 1, v[1], v[2]) :
                    v \in { VisionNone, << TRUE, Some(1) >>, << TRUE, Some(2) >> } },
        !.reports = { NoReport, Feasible(0), Feasible(NumVertices - 1) },
        !.indices = { None, Some(0) } ]

(***************************************************************************)
(* The specifications: the same loop under each set of inputs.             *)
(***************************************************************************)
Next == Cycle(CascadeInputs) \/ LoopExit
Spec == Init /\ [][Next]_vars

NextHysteresis == Cycle(HysteresisInputs) \/ LoopExit
SpecHysteresis == Init /\ [][NextHysteresis]_vars

NextStaleness == Cycle(StalenessInputs) \/ LoopExit
SpecStaleness == Init /\ [][NextStaleness]_vars

NextWall == Cycle(WallInputs) \/ LoopExit
SpecWall == Init /\ [][NextWall]_vars

NextSnapshot == Cycle(SnapshotInputs) \/ LoopExit
SpecSnapshot == Init /\ [][NextSnapshot]_vars

NextSequence == Cycle(SequenceInputs) \/ LoopExit
SpecSequence == Init /\ [][NextSequence]_vars

NextWallMode == Cycle(WallModeInputs) \/ LoopExit
SpecWallMode == Init /\ [][NextWallMode]_vars

\* the loop test is executed once the cycle before it has ended: when the end
\* has been reported the loop is left
NextShutdown == Cycle(ShutdownInputs) \/ LoopExit
SpecShutdown == Init /\ [][NextShutdown]_vars /\ WF_vars(shutdown /\ LoopExit)

NextLatch == Cycle(LatchInputs) \/ LoopExit
SpecLatch == Init /\ [][NextLatch]_vars

(***************************************************************************)
(* Properties.  "A cycle has run" is mode # "Startup"; the variables then  *)
(* hold the inputs, the answers and the effects of the latest cycle.       *)
(***************************************************************************)
CycleHasRun == mode # "Startup"

\* the names of the estimator methods called this cycle, in order
EstCallNames == [i \in 1..Len(est_calls) |-> est_calls[i][1]]

\* how often the estimator method was called this cycle
EstCallCount(name) == Cardinality({ i \in 1..Len(est_calls) : est_calls[i][1] = name })

\* whether the reasoner method was called this cycle
ReasonerCalled(name) == \E i \in 1..Len(cm_calls) : cm_calls[i] = name

\* the guards of the cascade, read off the inputs of the latest cycle
ContactGuardHolds ==
    /\ rm.torque_cone_boundary_test = << TRUE >>
    /\ rm.measured_contact_wrench[1] > 30
NewVisionHolds ==
    rm.polygon_vision_estimate_has_new /\ rm.polygon_vision_estimate_dict # << >>
NoContactGuardHolds ==
    replies.line_line_to_no_contact_check /\ time_since_last_vision_message > 10

\* the branches whose kinematic constraint was injected this cycle
InjectedBranches ==
    { b \in { "add_kinematic_constraints_object_corner_hand_line_contact",
              "add_kinematic_constraints_hand_flush_contact",
              "add_kinematic_constraints_no_hand_contact_for_no_vision_assist",
              "add_vision_constraints_no_hand_contact" } :
        /\ EstCallCount(b) > 0
        /\ b = "add_vision_constraints_no_hand_contact" =>
              EstCallCount("add_kinematic_constraints_object_corner_hand_line_contact") = 0 }

\* C1: in every cycle exactly one of the five outcomes occurs, the estimator's
\* time step is advanced once if a branch fired and not at all in an Idle
\* cycle, and the outcome is the one the guards give when read in the order
\* corner, flush, vision-assist, no-contact.
C1_OneOutcomePerCycle ==
    CycleHasRun =>
        /\ mode \in Modes
        /\ EstCallCount("increment_time") = (IF mode = Idle THEN 0 ELSE 1)
        /\ Cardinality(InjectedBranches) = (IF mode = Idle THEN 0 ELSE 1)
        /\ mode = (IF ContactGuardHolds /\ corner_contact_is_feasible THEN CornerContactMode
                   ELSE IF ContactGuardHolds THEN FlushLineContactMode
                   ELSE IF NewVisionHolds
                        THEN (IF replies.hypothesis_index # << >> THEN VisionAssistMode ELSE Idle)
                   ELSE IF NoContactGuardHolds
                        THEN (IF replies.num_hypothesis = 1 THEN NoContactMode ELSE Idle)
                   ELSE Idle)

\* C1 witness: the corner, flush and vision guards all hold and the corner branch is the one that fired
C1_Witness ==
    /\ mode = CornerContactMode
    /\ NewVisionHolds
    /\ EstCallCount("increment_time") = 1

\* C2 as stated: 14 consecutive infeasible reports leave corner_feasible true
\* and the 15th makes it false.
C2_FlipsAtFifteenth ==
    /\ since_feasible \in 0..14 => corner_contact_is_feasible
    /\ since_feasible = 15 => ~corner_contact_is_feasible

\* C2 amended: after a feasible report, corner_feasible stays true through 15
\* consecutive infeasible reports and is false after the 16th (and later ones).
C2_FlipsAtSixteenth ==
    since_feasible >= 0 => (corner_contact_is_feasible <=> since_feasible <= 15)

\* C2 witness: the 16th consecutive infeasible report has flipped the flag
C2_Witness ==
    /\ since_feasible = 16
    /\ ~corner_contact_is_feasible
    /\ num_line_contact_detected_count = 16

\* C3 as stated: in a corner or flush cycle vision is treated as fresh (the
\* reasoner is asked to choose a vision hypothesis) iff elapsed <= 0.2 s.
C3_FreshUpToThreshold ==
    mode \in { CornerContactMode, FlushLineContactMode } =>
        (ReasonerCalled("choose_vision_hypothesis") <=> time_since_last_vision_message <= 2)

\* C3 witness: a contact cycle exactly 0.2 s after the accepted vision
\* message, in which the reasoner was not asked and no vision was fused
C3_Witness ==
    /\ mode \in { CornerContactMode, FlushLineContactMode }
    /\ vision_vertex_array # << >>
    /\ time_since_last_vision_message = 2
    /\ ~ReasonerCalled("choose_vision_hypothesis")
    /\ EstCallCount("add_vision_estimate") = 0

\* C4: NoContactMode fires only when the line-to-no-contact check is true and
\* the elapsed time since the last accepted vision message exceeds 1.0 s; never
\* in a cycle that accepted a new vision estimate.
C4_NoContactNeedsLongStale ==
    mode = NoContactMode =>
        /\ replies.line_line_to_no_contact_check
        /\ time_since_last_vision_message > 10
        /\ ~NewVisionHolds

\* C4 witness: NoContactMode fired 1.1 s after the last vision message
C4_Witness ==
    /\ mode = NoContactMode
    /\ time_since_last_vision_message = 11

\* the two side tests, read off the inputs of the latest cycle
RightRowViolated ==
    \E i \in 1..Len(rm.friction_parameter_dict.aer) :
        Dot(rm.friction_parameter_dict.aer[i], rm.measured_world_manipulation_wrench)
            > rm.friction_parameter_dict.ber[i] + 30
LeftRowViolated ==
    \E i \in 1..Len(rm.friction_parameter_dict.ael) :
        Dot(rm.friction_parameter_dict.ael[i], rm.measured_world_manipulation_wrench)
            > rm.friction_parameter_dict.bel[i] + 30
RightHasRows == Len(rm.friction_parameter_dict.aer) > 0
LeftHasRows == Len(rm.friction_parameter_dict.ael) > 0

\* the wall flag with Right and Left exchanged
SwapFlag(f) == IF f = 0 THEN 1 ELSE IF f = 1 THEN 0 ELSE f

\* the wall flag the classifier gives when the inequality data of the two sides are exchanged
FlagOfSwappedSides ==
    WallFlagOf(WallSideBool(rm.friction_parameter_dict.ael, rm.friction_parameter_dict.bel,
                            rm.measured_world_manipulation_wrench),
               WallSideBool(rm.friction_parameter_dict.aer, rm.friction_parameter_dict.ber,
                            rm.measured_world_manipulation_wrench))

\* C5: with inequalities on both sides the wall flag is Right (0) iff only the
\* right test holds, Left (1) iff only the left test holds, Both (2) iff both
\* hold and None (-1) iff neither holds; exchanging the data of the two sides
\* exchanges Right and Left and leaves Both and None.
C5_WallFlagSymmetric ==
    (CycleHasRun /\ RightHasRows /\ LeftHasRows) =>
        /\ wall_flag = 0 <=> (RightRowViolated /\ ~LeftRowViolated)
        /\ wall_flag = 1 <=> (~RightRowViolated /\ LeftRowViolated)
        /\ wall_flag = 2 <=> (RightRowViolated /\ LeftRowViolated)
        /\ wall_flag = -1 <=> (~RightRowViolated /\ ~LeftRowViolated)
        /\ FlagOfSwappedSides = SwapFlag(wall_flag)

\* C5 witness: both sides have inequalities and only the right one is violated
C5_Witness ==
    /\ CycleHasRun
    /\ RightHasRows /\ LeftHasRows
    /\ RightRowViolated /\ ~LeftRowViolated
    /\ wall_flag = 0

\* the arguments of the wall-contact updates the estimator received this cycle
WallUpdateArgs ==
    { est_calls[i][2] : i \in { j \in 1..Len(est_calls) : est_calls[j][1] = "update_wall_contact_state" } }

\* C6: a side without inequality rows counts as in contact whatever the wrench,
\* so with at least one such side wall_contact_on is true and is the value the
\* estimator's wall-contact update receives; with no inequality on either side
\* the wall flag is Both.
C6_FailOpenWall ==
    CycleHasRun =>
        /\ ~RightHasRows => wall_flag = (IF LeftHasRows /\ ~LeftRowViolated THEN 0 ELSE 2)
        /\ ~LeftHasRows => wall_flag = (IF RightHasRows /\ ~RightRowViolated THEN 1 ELSE 2)
        /\ (~RightHasRows \/ ~LeftHasRows) => (wall_contact_on /\ WallUpdateArgs \subseteq { << 1 >> })
        /\ WallUpdateArgs \subseteq { << BoolInt(wall_contact_on) >> }
        /\ wall_contact_on <=> wall_flag # -1

\* C6 witness: the right side has no inequality, the left one is not violated, and the estimator was told of wall contact
C6_Witness ==
    /\ CycleHasRun
    /\ ~RightHasRows /\ LeftHasRows /\ ~LeftRowViolated
    /\ wall_contact_on
    /\ WallUpdateArgs = { << 1 >> }

\* C7: NoContactMode fires only with exactly one no-contact hypothesis; when
\* the no-contact guard is reached and the set has 0 or 2 or more hypotheses
\* the cycle is Idle: no estimator call, prev_step_was_line_contact and the
\* estimator's contact face unchanged, nothing published.
C7_NoContactNeedsOneHypothesis ==
    [][ /\ mode' = NoContactMode => replies'.num_hypothesis = 1
        /\ ( /\ cycle' = cycle + 1
             /\ ~ContactGuardHolds' /\ ~NewVisionHolds' /\ NoContactGuardHolds'
             /\ replies'.num_hypothesis # 1 )
           => ( /\ mode' = Idle
                /\ est_calls' = << >>
                /\ prev_step_was_line_contact' = prev_step_was_line_contact
                /\ current_contact_face' = current_contact_face
                /\ pub_pivot' = << >> /\ pub_contact' = << >> ) ]_vars

\* C7 witness: the no-contact guard held with two hypotheses after a flush cycle, and the cycle was Idle
C7_Witness ==
    /\ mode = Idle
    /\ ~ContactGuardHolds /\ ~NewVisionHolds /\ NoContactGuardHolds
    /\ replies.num_hypothesis = 2
    /\ current_contact_face # << >>
    /\ prev_step_was_line_contact

\* C8: a contact branch (corner or flush) fires iff the torque-boundary test is
\* true and the normal force is strictly above 3.0, whatever the vision input;
\* of the two, the corner branch fires iff corner_feasible is true.
C8_ContactBranchGuard ==
    CycleHasRun =>
        /\ mode \in { CornerContactMode, FlushLineContactMode } <=>
              (rm.torque_cone_boundary_test = << TRUE >> /\ rm.measured_contact_wrench[1] > 30)
        /\ mode = CornerContactMode <=>
              ( /\ rm.torque_cone_boundary_test = << TRUE >>
                /\ rm.measured_contact_wrench[1] > 30
                /\ corner_contact_is_feasible )
        /\ (rm.torque_cone_boundary_test = << TRUE >> /\ rm.measured_contact_wrench[1] > 30)
              => mode \notin { VisionAssistMode, NoContactMode, Idle }

\* C8 witness: torque-boundary flag true, normal force 2.9, and the cascade went on to the vision-assist branch
C8_Witness ==
    /\ rm.torque_cone_boundary_test = << TRUE >>
    /\ rm.measured_contact_wrench[1] = 29
    /\ mode = VisionAssistMode

\* C9: the published vertex array and weight lists have the length of the
\* estimator's vertex list, and entry i holds (normal_i, tangential_i, height)
\* and (mglcostheta_i, mglsintheta_i) of the estimator's vertex i.
C9_SnapshotKeepsVertexOrder ==
    pub_contact # << >> =>
        LET est == replies.estimate[1]
            msg == pub_contact[1]
            n == Len(est.vertex_positions_wm_current[1])
        IN  /\ \A k \in 1..3 : Len(msg.vertex_array[k]) = n
            /\ Len(msg.mgl_cos_theta_list) = n
            /\ Len(msg.mgl_sin_theta_list) = n
            /\ \A i \in 1..n :
                  /\ msg.vertex_array[1][i] = est.vertex_positions_wm_current[1][i]
                  /\ msg.vertex_array[2][i] = est.vertex_positions_wm_current[2][i]
                  /\ msg.vertex_array[3][i] = rm.ee_pose_height
                  /\ msg.mgl_cos_theta_list[i] = est.mglcostheta_current[i]
                  /\ msg.mgl_sin_theta_list[i] = est.mglsintheta_current[i]

\* C9 witness: a snapshot of an estimate whose vertices all differ was published
C9_Witness ==
    /\ pub_contact # << >>
    /\ replies.estimate[1] = Estimate(5, 3)
    /\ pub_contact[1].vertex_array[1][1] # pub_contact[1].vertex_array[1][NumVertices]
    /\ rm.ee_pose_height = 4

\* C10: in a cycle where a branch fired and compute_basic_estimate returned
\* None, neither message is published and the cycle completes, so the latest
\* message of each topic stays the one of the last cycle with an estimate.
C10_NullEstimateSkipsPublication ==
    [][ (cycle' = cycle + 1 /\ can_run_estimate' /\ replies'.estimate = << >>)
        => ( /\ pub_pivot' = << >>
             /\ pub_contact' = << >>
             /\ last_pivot' = last_pivot
             /\ last_contact' = last_contact
             /\ pc' = "running" ) ]_vars

\* C10 witness: a branch fired, the estimate was None, and an earlier snapshot is still the latest message
C10_Witness ==
    /\ can_run_estimate
    /\ EstCallCount("compute_basic_estimate") = 1
    /\ replies.estimate = << >>
    /\ pub_contact = << >>
    /\ last_contact # << >>

\* C11: in an Idle cycle no estimator method is called, the estimator's
\* contact face, slip parameter, wall-contact state and has_run_once are
\* unchanged, prev_step_was_line_contact is unchanged, and nothing is
\* published (the latest messages stay); the reasoner's previous estimate is
\* not replaced.
C11_IdleCycleLeavesEstimator ==
    [][ (cycle' = cycle + 1 /\ mode' = Idle)
        => ( /\ est_calls' = << >>
             /\ ~can_run_estimate'
             /\ current_contact_face' = current_contact_face
             /\ s_current' = s_current
             /\ est_wall_contact' = est_wall_contact
             /\ has_run_once' = has_run_once
             /\ prev_step_was_line_contact' = prev_step_was_line_contact
             /\ cm_previous_estimate' = cm_previous_estimate
             /\ pub_pivot' = << >> /\ pub_contact' = << >>
             /\ last_pivot' = last_pivot /\ last_contact' = last_contact ) ]_vars

\* C11 witness: an Idle cycle after a flush cycle: the face, the re-seedable
\* slip parameter and the latest message of the flush cycle are still there
C11_Witness ==
    /\ mode = Idle
    /\ est_calls = << >>
    /\ current_contact_face = << NumVertices - 1 >>
    /\ prev_step_was_line_contact
    /\ pub_contact = << >>
    /\ last_contact # << >>

\* C12: compute_basic_estimate is called in a cycle iff a branch fired
\* (can_run_estimate), then exactly once and as the last estimator method of
\* the cycle, after every observation and constraint; in a cycle where a
\* branch fired increment_time is called once and is the first estimator
\* method called.
C12_TimeAdvanceFirstEstimateLast ==
    CycleHasRun =>
        /\ can_run_estimate <=> mode # Idle
        /\ EstCallCount("compute_basic_estimate") = (IF can_run_estimate THEN 1 ELSE 0)
        /\ can_run_estimate =>
              /\ Len(est_calls) >= 5
              /\ EstCallNames[1] = "increment_time"
              /\ EstCallCount("increment_time") = 1
              /\ EstCallNames[Len(est_calls)] = "compute_basic_estimate"

\* C12 witness: a flush cycle with vision fused: eight injections between the
\* time advance and the estimate
C12_Witness ==
    /\ mode = FlushLineContactMode
    /\ Len(est_calls) = 9
    /\ EstCallNames[1] = "increment_time"
    /\ EstCallNames[8] = "add_vision_constraints_hand_flush_contact"
    /\ EstCallNames[9] = "compute_basic_estimate"

\* C13 as stated: when a flush cycle fires, the slip parameter is taken from
\* the reasoner iff the immediately preceding cycle was not a flush cycle
\* (the first cycle of the run and a flush cycle after an Idle cycle included),
\* and is left as it was otherwise.
C13_ReseedUnlessPrecededByFlush ==
    [][ (cycle' = cycle + 1 /\ mode' = FlushLineContactMode)
        => ( /\ mode # FlushLineContactMode => s_current' = replies'.hand_contact_s
             /\ mode = FlushLineContactMode => s_current' = s_current ) ]_vars

\* C13 amended: when a flush cycle fires, the slip parameter is taken from the
\* reasoner iff prev_step_was_line_contact is false at that point: it is
\* re-seeded after a corner, vision-assist or no-contact cycle, not after a
\* flush cycle, not in the first cycle of the run, and after an Idle cycle
\* only if the flag is false.
C13_ReseedIffFlagFalse ==
    [][ (cycle' = cycle + 1 /\ mode' = FlushLineContactMode)
        => ( /\ s_current' = (IF prev_step_was_line_contact THEN s_current
                              ELSE replies'.hand_contact_s)
             /\ mode \in { CornerContactMode, VisionAssistMode, NoContactMode }
                   => s_current' = replies'.hand_contact_s
             /\ mode \in { FlushLineContactMode, "Startup" } => s_current' = s_current
             /\ mode = Idle => (s_current' = s_current <=>
                                   (prev_step_was_line_contact
                                    \/ s_current = replies'.hand_contact_s)) ) ]_vars

\* C13 witness: the flush cycle that is the second cycle of the run took the
\* reasoner's slip estimate (a flush cycle that is the first one does not)
C13_Witness ==
    /\ mode = FlushLineContactMode
    /\ cycle = 2
    /\ s_current = 2
    /\ replies.hand_contact_s = 2

\* C14: a cycle leaves prev_step_was_line_contact true if the flush branch
\* fired, false if the corner, vision-assist or no-contact branch fired, and
\* as it was if the cycle was Idle; so the flag is true whenever the
\* estimator's contact face is set (the most recent firing cycle was a flush
\* cycle).
C14_FlagTracksLastFiringCycle ==
    [][ /\ cycle' = cycle + 1 =>
              prev_step_was_line_contact' =
                  (IF mode' = FlushLineContactMode THEN TRUE
                   ELSE IF mode' \in { CornerContactMode, VisionAssistMode, NoContactMode } THEN FALSE
                   ELSE prev_step_was_line_contact)
        /\ current_contact_face' # << >> => prev_step_was_line_contact' ]_vars

\* C14 witness: an Idle cycle that kept the flag false after a branch other
\* than flush had fired and produced an estimate
C14_Witness ==
    /\ mode = Idle
    /\ ~prev_step_was_line_contact
    /\ has_run_once
    /\ current_contact_face = << >>

\* C15: the corner branch fires whenever its guard holds, whatever the vision
\* input, and injects the corner kinematic constraint once; the vision
\* observation and the vision constraint are each added (once) iff vision is
\* fresh and choose_vision_hypothesis returned an index, and neither is added
\* when it returned None.
C15_CornerVisionAdditive ==
    CycleHasRun =>
        /\ (ContactGuardHolds /\ corner_contact_is_feasible) => mode = CornerContactMode
        /\ mode = CornerContactMode =>
              LET fused == time_since_last_vision_message < 2 /\ replies.hypothesis_index # << >>
              IN  /\ EstCallCount("add_kinematic_constraints_object_corner_hand_line_contact") = 1
                  /\ EstCallCount("add_vision_estimate") = (IF fused THEN 1 ELSE 0)
                  /\ EstCallCount("add_vision_constraints_no_hand_contact") = (IF fused THEN 1 ELSE 0)
                  /\ EstCallCount("add_vision_constraints_hand_flush_contact") = 0

\* C15 witness: a corner cycle with fresh vision in which the reasoner chose
\* no hypothesis: the corner constraint alone was injected
C15_Witness ==
    /\ mode = CornerContactMode
    /\ time_since_last_vision_message < 2
    /\ ReasonerCalled("choose_vision_hypothesis")
    /\ replies.hypothesis_index = << >>
    /\ EstCallCount("add_kinematic_constraints_object_corner_hand_line_contact") = 1
    /\ EstCallCount("add_vision_estimate") = 0

\* C16 as stated: in a flush cycle the vision observation and the flush
\* variant of the vision constraint are each added iff vision is fresh and
\* the reasoner selected a hypothesis; with fresh vision and no hypothesis
\* selected no vision observation is added.
C16_FlushVisionNeedsHypothesis ==
    mode = FlushLineContactMode =>
        LET fused == time_since_last_vision_message < 2 /\ replies.hypothesis_index # << >>
        IN  /\ EstCallCount("add_vision_estimate") = (IF fused THEN 1 ELSE 0)
            /\ EstCallCount("add_vision_constraints_hand_flush_contact") = (IF fused THEN 1 ELSE 0)

\* C16 witness: a flush cycle with fresh vision in which the reasoner chose no
\* hypothesis, and the vision observation was added without a vision constraint
C16_Witness ==
    /\ mode = FlushLineContactMode
    /\ time_since_last_vision_message < 2
    /\ ReasonerCalled("choose_vision_hypothesis")
    /\ replies.hypothesis_index = << >>
    /\ EstCallCount("add_vision_estimate") = 1
    /\ EstCallCount("add_vision_constraints_hand_flush_contact") = 0

\* the position of the first call of the estimator method in this cycle (0: not called)
EstCallIndex(name) ==
    IF EstCallCount(name) = 0 THEN 0
    ELSE CHOOSE i \in 1..Len(est_calls) :
            /\ est_calls[i][1] = name
            /\ \A j \in 1..(i - 1) : est_calls[j][1] # name

\* C17: when the vision-assist branch fires, the 'no hand contact, vision
\* assisted' kinematic constraint is injected iff has_run_once was true when
\* the cycle began, and then before the vision observation; the vision
\* observation and the vision constraint of the selected hypothesis are added
\* once each, in this order, and no corner or flush constraint is added.
C17_VisionAssistConstraintOrder ==
    [][ (cycle' = cycle + 1 /\ mode' = VisionAssistMode)
        => ( /\ EstCallCount("add_kinematic_constraints_no_hand_contact_for_vision_assist")'
                   = (IF has_run_once THEN 1 ELSE 0)
             /\ EstCallCount("add_vision_estimate")' = 1
             /\ EstCallCount("add_vision_constraints_no_hand_contact")' = 1
             /\ has_run_once =>
                   EstCallIndex("add_kinematic_constraints_no_hand_contact_for_vision_assist")'
                      < EstCallIndex("add_vision_estimate")'
             /\ EstCallIndex("add_vision_estimate")'
                   < EstCallIndex("add_vision_constraints_no_hand_contact")'
             /\ replies'.hypothesis_index # << >>
             /\ est_calls'[EstCallIndex("add_vision_constraints_no_hand_contact")'][2]
                   = vision_hypothesis_dict' \o replies'.hypothesis_index
             /\ EstCallCount("add_kinematic_constraints_object_corner_hand_line_contact")' = 0
             /\ EstCallCount("add_kinematic_constraints_hand_flush_contact")' = 0
             /\ EstCallCount("add_vision_constraints_hand_flush_contact")' = 0 ) ]_vars

\* C17 witness: a vision-assist cycle of an estimator that had run: the
\* kinematic constraint is the sixth call, the vision observation the seventh
C17_Witness ==
    /\ mode = VisionAssistMode
    /\ EstCallIndex("add_kinematic_constraints_no_hand_contact_for_vision_assist") = 6
    /\ EstCallIndex("add_vision_estimate") = 7
    /\ EstCallIndex("add_vision_constraints_no_hand_contact") = 8

\* C18: a cycle in which the corner, flush or vision-assist branch fired
\* updates the estimator's wall-contact state once, with wall_contact_on; a
\* no-contact or Idle cycle makes no wall update and leaves the estimator's
\* wall-contact state as it was.
C18_WallUpdateSkippedWithoutContact ==
    [][ cycle' = cycle + 1 =>
          /\ mode' \in { CornerContactMode, FlushLineContactMode, VisionAssistMode } =>
                /\ EstCallCount("update_wall_contact_state")' = 1
                /\ WallUpdateArgs' = { << BoolInt(wall_contact_on') >> }
                /\ est_wall_contact' = wall_contact_on'
          /\ mode' \in { NoContactMode, Idle } =>
                /\ EstCallCount("update_wall_contact_state")' = 0
                /\ est_wall_contact' = est_wall_contact ]_vars

\* C18 witness: a no-contact cycle with the wall in contact, after which the
\* estimator still holds the earlier 'no wall contact'
C18_Witness ==
    /\ mode = NoContactMode
    /\ wall_contact_on
    /\ ~est_wall_contact
    /\ EstCallCount("update_wall_contact_state") = 0
    /\ EstCallCount("add_sliding_state") = 1

\* C19: the hand-contact indices of a cycle, which are the ones its message
\* carries, are the latched corner hypothesis's contact vertex alone after a
\* corner cycle, the pair (f, (f+1) mod num_vertices) of the reasoner's face f
\* after a flush cycle (the last face pairs with vertex 0), and empty after a
\* vision-assist, no-contact or Idle cycle, whatever an earlier cycle had.
C19_HandContactIndicesPerMode ==
    CycleHasRun =>
        /\ mode = CornerContactMode =>
              (corner_contact_dict # << >> /\ hand_contact_indices = << corner_contact_dict[1] >>)
        /\ mode = FlushLineContactMode =>
              /\ hand_contact_indices =
                    << replies.hand_contact_face, (replies.hand_contact_face + 1) % NumVertices >>
              /\ replies.hand_contact_face = NumVertices - 1 => hand_contact_indices[2] = 0
              /\ \A i \in 1..2 : hand_contact_indices[i] \in 0..(NumVertices - 1)
        /\ mode \in { VisionAssistMode, NoContactMode, Idle } => hand_contact_indices = << >>
        /\ pub_contact # << >> => pub_contact[1].hand_contact_indices = hand_contact_indices

\* C19 witness: a published flush cycle on the last face: the indices wrap to vertex 0
C19_Witness ==
    /\ mode = FlushLineContactMode
    /\ pub_contact # << >>
    /\ replies.hand_contact_face = NumVertices - 1
    /\ pub_contact[1].hand_contact_indices = << NumVertices - 1, 0 >>

\* C20: a cycle that begins with has_run_once false does not ask the reasoner
\* for corner feasibility and leaves corner_feasible, the miss count and the
\* latched corner hypothesis as they were; so while has_run_once is false
\* they hold their initial values, and the corner branch fires only in a
\* cycle that began with has_run_once true.
C20_HysteresisWaitsForFirstEstimate ==
    [][ cycle' = cycle + 1 =>
          /\ ~has_run_once =>
                /\ corner_contact_is_feasible' = corner_contact_is_feasible
                /\ num_line_contact_detected_count' = num_line_contact_detected_count
                /\ corner_contact_dict' = corner_contact_dict
                /\ ~ReasonerCalled("compute_feasibility_of_hand_line_object_corner_contact")'
          /\ has_run_once =>
                ReasonerCalled("compute_feasibility_of_hand_line_object_corner_contact")'
          /\ ~has_run_once' =>
                /\ ~corner_contact_is_feasible'
                /\ num_line_contact_detected_count' = 9999
                /\ corner_contact_dict' = << >>
          /\ mode' = CornerContactMode => has_run_once ]_vars

\* C20 witness: two cycles in, a flush cycle whose estimate was None: the
\* estimator has not run once and the hysteresis state is the initial one
C20_Witness ==
    /\ cycle = 2
    /\ mode = FlushLineContactMode
    /\ replies.estimate = << >>
    /\ ~has_run_once
    /\ ~corner_contact_is_feasible
    /\ num_line_contact_detected_count = 9999

\* C21: in a cycle with a new non-null vision estimate in which neither
\* contact branch fired and choose_vision_hypothesis returned None, the cycle
\* completes as Idle: the reasoner was asked, no estimator method is called,
\* prev_step_was_line_contact and the estimator's contact face are unchanged,
\* nothing is published and the no-contact arm is not entered.
C21_VisionAssistAbortsToIdle ==
    [][ ( /\ cycle' = cycle + 1
          /\ ~ContactGuardHolds' /\ NewVisionHolds'
          /\ replies'.hypothesis_index = << >> )
        => ( /\ mode' = Idle
             /\ pc' = "running"
             /\ ReasonerCalled("choose_vision_hypothesis")'
             /\ ~ReasonerCalled("compute_hypothesis_object_poses_assuming_no_contact")'
             /\ est_calls' = << >>
             /\ ~can_run_estimate'
             /\ prev_step_was_line_contact' = prev_step_was_line_contact
             /\ current_contact_face' = current_contact_face
             /\ pub_pivot' = << >> /\ pub_contact' = << >> ) ]_vars

\* C21 witness: after a flush cycle, a cycle with new vision and no contact in
\* which the reasoner chose no hypothesis ended Idle, face and flag kept
C21_Witness ==
    /\ mode = Idle
    /\ ~ContactGuardHolds /\ NewVisionHolds
    /\ ReasonerCalled("choose_vision_hypothesis")
    /\ replies.hypothesis_index = << >>
    /\ current_contact_face # << >>
    /\ prev_step_was_line_contact
    /\ est_calls = << >>

\* C22: the end (shutdown or end of the recorded data) is read at the top of
\* a cycle only: a cycle during which it is reported still runs through its
\* estimate, its publication and its end-of-cycle wait; once it is reported
\* it stays reported, no further cycle starts (no estimator call, no
\* publication), and the loop terminates.
C22_CooperativeCancellation ==
    /\ [][ /\ (cycle' = cycle + 1 /\ shutdown') =>
                 /\ ~shutdown
                 /\ pc' = "running"
                 /\ can_run_estimate' => EstCallCount("compute_basic_estimate")' = 1
                 /\ (can_run_estimate' /\ replies'.estimate # << >>) => pub_contact' # << >>
           /\ shutdown =>
                 /\ shutdown'
                 /\ cycle' = cycle
                 /\ est_calls' = est_calls
                 /\ pub_pivot' = pub_pivot /\ pub_contact' = pub_contact
                 /\ last_pivot' = last_pivot /\ last_contact' = last_contact
                 /\ pc' = "done" ]_vars
    /\ (shutdown ~> pc = "done")

\* C22 witness: the end was reported during the second cycle, which ran to
\* its publication and its wait; the loop is at its top and will be left
C22_Witness ==
    /\ shutdown
    /\ pc = "running"
    /\ cycle = 2
    /\ EstCallCount("compute_basic_estimate") = 1
    /\ pub_contact # << >>

\* the branch and the estimator calls the cycle that has just run (inputs rm',
\* answers replies', clock reading time_since_last_vision_message') issues
\* when it is entered with the hysteresis counter and flag and has_run_once
\* as they are and with the latched corner hypothesis dict and the latched
\* vision data vis
OutcomeEnteredWith(dict, vis) ==
    LET r == rm'
        q == replies'
        t == time_since_last_vision_message'
        h == HysteresisUpdate(corner_contact_is_feasible, num_line_contact_detected_count,
                              dict, has_run_once, q.corner_report)
        br == Branch(r, h[1], q.line_line_to_no_contact_check, t)
        m == ModeOf(br, q)
        c == [ r |-> r, q |-> q, t |-> t,
               wall_contact_on |-> wall_contact_on', corner_contact_dict |-> h[3],
               vision_vertex_array |-> VisionLatch(r, vis),
               vision_hypothesis_dict |-> VisionLatch(r, vis),
               has_run_once |-> has_run_once ]
    IN  << m, BranchEstCalls(m, c) \o EstimateCalls(m) >>

\* the method names of a sequence of calls
CallNames(calls) == [i \in 1..Len(calls) |-> calls[i][1]]

\* the corner hypotheses a run can hold latched with the same hysteresis
\* counter and flag, and the vision data it can hold with the same timestamp
OtherDicts == IF corner_contact_dict = << >> THEN { << >> }
              ELSE { << v >> : v \in 0..(NumVertices - 1) }
OtherVisions == IF vision_vertex_array = << >> THEN { << >> } ELSE { << 1 >>, << 2 >> }

\* C23 as stated: the branch a cycle selects and the estimator calls it
\* issues, arguments included, are the same for every latched corner
\* hypothesis and every latched vision polygon / hypothesis set the run may
\* have entered the cycle with, the hysteresis counter and flag, the
\* last-vision timestamp and the estimator's state being equal.
C23_OnlyScalarsCrossCycles ==
    [][ cycle' = cycle + 1 =>
          \A dict \in OtherDicts, vis \in OtherVisions :
              << mode', est_calls' >> = OutcomeEnteredWith(dict, vis) ]_vars

\* C23 amended: the branch and the estimator calls of a cycle are determined
\* by its inputs and by the hysteresis counter and flag, the last-vision
\* timestamp, the estimator's state, the latched corner hypothesis and the
\* latched vision data; the branch and the sequence of methods do not depend
\* on the two latched payloads, and a payload does not influence a cycle
\* that replaces it (a feasible report, an accepted vision message).
C23_LatchedPayloadsCrossCycles ==
    [][ cycle' = cycle + 1 =>
          /\ << mode', est_calls' >> = OutcomeEnteredWith(corner_contact_dict, vision_vertex_array)
          /\ vision_hypothesis_dict = vision_vertex_array
          /\ \A dict \in OtherDicts, vis \in OtherVisions :
                /\ OutcomeEnteredWith(dict, vis)[1] = mode'
                /\ CallNames(OutcomeEnteredWith(dict, vis)[2]) = CallNames(est_calls')
                /\ replies'.corner_report.is_feasible =>
                      OutcomeEnteredWith(dict, vision_vertex_array) = << mode', est_calls' >>
                /\ NewVision(rm') =>
                      OutcomeEnteredWith(corner_contact_dict, vis) = << mode', est_calls' >> ]_vars

\* C23 witness: a corner cycle without a new vision message and with an
\* infeasible report, 0.1 s after the last vision message: the corner
\* constraint and the vision observation carry data of earlier cycles
C23_Witness ==
    /\ mode = CornerContactMode
    /\ ~replies.corner_report.is_feasible
    /\ ~NewVisionHolds
    /\ time_since_last_vision_message = 1
    /\ EstCallCount("add_vision_estimate") = 1
    /\ est_calls[EstCallIndex("add_vision_estimate")][2] = << 2 >>
    /\ est_calls[EstCallIndex("add_kinematic_constraints_object_corner_hand_line_contact")][2]
          = << NumVertices - 1 >>

\* C24: after every cycle, corner_feasible true implies that a corner
\* hypothesis is latched; the latched hypothesis is the payload of the most
\* recent feasible report (a feasible report replaces it, any other cycle
\* keeps it), and a corner cycle passes it, not None, to the corner
\* constraint and publishes its contact vertex.
C24_FeasibleImpliesLatched ==
    [][ cycle' = cycle + 1 =>
          /\ corner_contact_is_feasible' => corner_contact_dict' # << >>
          /\ corner_contact_dict' =
                (IF replies'.corner_report.is_feasible
                 THEN << replies'.corner_report.contact_vertex >>
                 ELSE corner_contact_dict)
          /\ mode' = CornerContactMode =>
                /\ corner_contact_dict' # << >>
                /\ est_calls'[EstCallIndex("add_kinematic_constraints_object_corner_hand_line_contact")'][2]
                      = corner_contact_dict'
                /\ hand_contact_indices' = << corner_contact_dict'[1] >>
                /\ pc' = "running" ]_vars

\* C24 witness: a corner cycle fifteen infeasible reports after the feasible
\* one whose hypothesis it still passes
C24_Witness ==
    /\ mode = CornerContactMode
    /\ corner_contact_is_feasible
    /\ num_line_contact_detected_count = 15
    /\ corner_contact_dict = << NumVertices - 1 >>
    /\ hand_contact_indices = << NumVertices - 1 >>

\* C25: while no vision estimate has been accepted the elapsed time is at
\* least 1.0 s, so vision is not fresh; whenever vision is fresh, and so in
\* every corner or flush cycle that reads the latched vision polygon and
\* hypothesis set, both have been assigned, and no cycle fails on the read.
C25_NoFreshVisionBeforeFirstMessage ==
    /\ pc # "crashed"
    /\ CycleHasRun =>
          /\ vision_vertex_array = << >> => time_since_last_vision_message >= 10
          /\ vision_hypothesis_dict = << >> => time_since_last_vision_message >= 10
          /\ time_since_last_vision_message < 2 =>
                (vision_vertex_array # << >> /\ vision_hypothesis_dict # << >>)
          /\ ( /\ mode \in { CornerContactMode, FlushLineContactMode }
               /\ ReasonerCalled("choose_vision_hypothesis") )
                => (vision_vertex_array # << >> /\ vision_hypothesis_dict # << >>)
          /\ EstCallCount("add_vision_estimate") > 0 =>
                est_calls[EstCallIndex("add_vision_estimate")][2] # << >>

\* C25 witness: a flush cycle without a new message, 0.1 s after the accepted
\* one, that read the vision data latched in an earlier cycle
C25_Witness ==
    /\ mode = FlushLineContactMode
    /\ ~NewVisionHolds
    /\ time_since_last_vision_message = 1
    /\ ReasonerCalled("choose_vision_hypothesis")
    /\ vision_hypothesis_dict = << 1 >>
    /\ pc = "running"

\* C26: the reasoner's previous estimate is replaced in exactly the cycles in
\* which compute_basic_estimate was called, by what that call returned: by
\* None when it returned None, a cycle that publishes nothing; any other
\* cycle leaves it as it was.
C26_PreviousEstimateOverwrittenWithNull ==
    [][ cycle' = cycle + 1 =>
          /\ ReasonerCalled("update_previous_estimate")'
                <=> EstCallCount("compute_basic_estimate")' = 1
          /\ cm_previous_estimate' =
                (IF EstCallCount("compute_basic_estimate")' = 1 THEN replies'.estimate
                 ELSE cm_previous_estimate)
          /\ (EstCallCount("compute_basic_estimate")' = 1 /\ replies'.estimate = << >>) =>
                /\ cm_previous_estimate' = << >>
                /\ pub_pivot' = << >> /\ pub_contact' = << >>
                /\ last_contact' = last_contact ]_vars

\* C26 witness: after a cycle that published an estimate, a cycle whose
\* estimate was None left the reasoner with None
C26_Witness ==
    /\ EstCallCount("compute_basic_estimate") = 1
    /\ replies.estimate = << >>
    /\ cm_previous_estimate = << >>
    /\ last_contact # << >>
    /\ has_run_once

=============================================================================
